---- MODULE Spec2Model ----
(***************************************************************************)
(* A model of the customer-service agent of DanielGlzG/sac-agent:          *)
(*   src/customer_service_agent.py  memory manager, context assembly,      *)
(*                                  orchestrator (chat)                    *)
(*   src/agentcore_app.py           payload validation and the entrypoint  *)
(*   src/check_events.py            the audit of a user's stored events    *)
(*                                                                         *)
(* Text is modelled by TLA+ strings, so that len(), slicing, joining and   *)
(* substring search are computed as Python computes them.  Glyphs outside  *)
(* ASCII in the program's labels (emoji, accented letters) are written as  *)
(* one ASCII character each, which keeps every length.                     *)
(***************************************************************************)
EXTENDS Integers, Sequences, FiniteSets, TLC

VARIABLES
    pc,                      \* position of the handler being run
    clock,                   \* datetime.now(), as a counter
    session_id,              \* the session id of the turn
    message,                 \* chat's message argument
    user_id,                 \* chat's user_id argument
    memories,                \* what the memory store holds, per namespace type
    user_context,            \* chat's local user_context
    conversation_history,    \* chat's local conversation_history
    contextualized_message,  \* chat's local contextualized_message
    has_memory,              \* hasattr(context, 'memory')
    stored_history,          \* context.memory['conversation_history']
    appended,                \* history variable: the turns whose save was stored
    store_faults,            \* history variable: the store calls that raised
    payload,                 \* the request payload given to the entrypoint
    context_session_id,      \* context.session_id ("" for None)
    entry_session_id,        \* the entrypoint's local session_id
    start_time,              \* the entrypoint's local start_time
    memory_client,           \* whether memory_manager.memory_client is set
    events,                  \* the events the memory store accepted
    response,                \* what the orchestrator agent call gave
    exc,                     \* the exception being propagated ("" for none)
    chat_result,             \* how orchestrator.chat ended
    envelope,                \* how the entrypoint ended
    calls,                   \* history variable: the outbound calls of the
                             \* request, each with whether it succeeded
    index,                   \* the candidates the knowledge index holds
    kb_call,                 \* the arguments of the last retrieve call
    results,                 \* what BedrockKnowledgeBaseClient.retrieve gave
    search_result,           \* how search_knowledge_base ended
    call_log,                \* history variable: the requests of the turn to
                             \* the stores and to the model, in their order
    mem_call,                \* the arguments of the last memory-manager call
    mem_result,              \* what the memory-manager call returned
    writers,                 \* the turns of one session running side by side
    attempts                 \* the attempts of the knowledge retrieval in hand

vars == <<pc, clock, session_id, message, user_id, memories, user_context,
          conversation_history, contextualized_message, has_memory,
          stored_history, appended, store_faults, payload, context_session_id,
          entry_session_id, start_time, memory_client, events, response, exc,
          chat_result, envelope, calls, index, kb_call, results,
          search_result, call_log, mem_call, mem_result, writers, attempts>>

\* the variables of the knowledge tools
kbVars == <<index, kb_call, results, search_result>>

\* the variables of the entrypoint and of the end of chat
entryVars == <<payload, context_session_id, entry_session_id, start_time,
               memory_client, events, response, exc, chat_result, envelope>>

\* the variables of the memory manager called on its own
memVars == <<mem_call, mem_result>>

\* the variables that one request through the entrypoint leaves alone
toolVars == <<kbVars, memVars, writers, attempts>>

\* the variables that the specifications of context assembly and of the
\* session history leave alone
turnVars == <<entryVars, calls, call_log, toolVars>>

(***************************************************************************)
(* Program constants.                                                      *)
(***************************************************************************)
MaxStoredHistory == 10
RecentHistoryCap == 3
ResponsePreviewLen == 100
PreferencesCap == 3
SummariesCap == 2
SemanticCap == 2
KnowledgePreviewLen == 800
SearchMaxResults == 15
SearchMinScore == 25
TopResults == 3

(***************************************************************************)
(* Bounds of the model.                                                    *)
(***************************************************************************)
MaxHist == 4
MaxPrefs == 4
MaxItems == 3
MaxClock == 2
MaxSaves == 12
MaxStoreFaults == 1
MaxPrior == 1
MaxCandidates == 4
MaxResults == 2

(***************************************************************************)
(* Python list and string helpers.                                         *)
(***************************************************************************)
Min(a, b) == IF a < b THEN a ELSE b

\* s[-n:]
LastN(s, n) == IF Len(s) > n THEN SubSeq(s, Len(s) - n + 1, Len(s)) ELSE s

\* s[:n]
FirstN(s, n) == IF Len(s) > n THEN SubSeq(s, 1, n) ELSE s

RECURSIVE Join(_, _)
\* sep.join(parts)
Join(parts, sep) ==
    IF parts = <<>> THEN ""
    ELSE IF Len(parts) = 1 THEN parts[1]
    ELSE parts[1] \o sep \o Join(Tail(parts), sep)

RECURSIVE Repeat(_, _)
\* s * n
Repeat(s, n) ==
    IF n = 0 THEN ""
    ELSE IF n % 2 = 0 THEN LET h == Repeat(s, n \div 2) IN h \o h
    ELSE s \o Repeat(s, n - 1)

RECURSIVE Concat(_)
\* the concatenation of a sequence of sequences
Concat(ss) == IF ss = <<>> THEN <<>> ELSE Head(ss) \o Concat(Tail(ss))

StartsWith(s, p) == Len(s) >= Len(p) /\ SubSeq(s, 1, Len(p)) = p

\* s.split("\n")
Lines(s) ==
    LET nl == {i \in 1..Len(s) : SubSeq(s, i, i) = "\n"}
        k == Cardinality(nl)
        at(j) == IF j = 0 THEN 0
                 ELSE IF j = k + 1 THEN Len(s) + 1
                 ELSE CHOOSE p \in nl : Cardinality({q \in nl : q < p}) = j - 1
    IN  [j \in 1..(k + 1) |-> SubSeq(s, at(j - 1) + 1, at(j) - 1)]

BoundedSeqs(S, n) == UNION {[1..k -> S] : k \in 0..n}

(***************************************************************************)
(* AgentCoreMemoryManager.get_user_context, lines 346-401.  Its arguments  *)
(* here are the memory lists retrieve_memories returned for the three      *)
(* namespace types; a memory is a record with a content field.             *)
(***************************************************************************)
PreferencesLabel == "# **Informacion del usuario:**"
SummariesLabel == "\n# **Conversaciones anteriores:**"
SemanticLabel == "\n# **Contexto relacionado:**"

\* a variant that drops the [:cap] slice
SnippetLinesUncapped(mems, cap) ==
    Concat([i \in 1..Len(mems) |->
              IF mems[i].content # "" THEN <<"- " \o mems[i].content>>
              ELSE <<>>])

\* for memory in memories[:cap]: if content: append("- " + content)
SnippetLines(mems, cap) ==
    LET shown == FirstN(mems, cap)
    IN  Concat([i \in 1..Len(shown) |->
                  IF shown[i].content # "" THEN <<"- " \o shown[i].content>>
                  ELSE <<>>])

NamespaceBlock(label, mems, cap) ==
    IF mems # <<>> THEN <<label>> \o SnippetLines(mems, cap) ELSE <<>>

GetUserContextParts(user_prefs, summaries, semantic, sid) ==
    NamespaceBlock(PreferencesLabel, user_prefs, PreferencesCap)
    \o (IF sid # "" THEN NamespaceBlock(SummariesLabel, summaries, SummariesCap)
        ELSE <<>>)
    \o NamespaceBlock(SemanticLabel, semantic, SemanticCap)

GetUserContext(user_prefs, summaries, semantic, sid) ==
    LET context_parts == GetUserContextParts(user_prefs, summaries, semantic, sid)
    IN  IF context_parts # <<>> THEN Join(context_parts, "\n") \o "\n\n" ELSE ""

(***************************************************************************)
(* CustomerServiceOrchestrator._build_contextualized_message, 739-771.     *)
(***************************************************************************)
LongTermLabel == "# **Memoria de largo plazo del usuario:**"
HistoryLabel == "# **Contexto de conversacion actual:**"
CurrentLabel == "# **Mensaje actual:**"

RenderInteraction(i, interaction) ==
    << "Interaccion " \o ToString(i) \o ":",
       "Usuario: " \o interaction.user_message,
       "Agente: " \o FirstN(interaction.agent_response, ResponsePreviewLen) \o "...",
       "" >>

\* a variant that keeps the oldest turns, history[:3]
RecentHistoryOldest(history) == FirstN(history, 3)

\* history[-3:] if len(history) > 3 else history
RecentHistory(history) ==
    IF Len(history) > RecentHistoryCap THEN LastN(history, RecentHistoryCap)
    ELSE history

\* a variant that writes the user id into the text
BuildContextPartsWithUserId(msg, uid, history, uctx) ==
    LET recent_history == RecentHistory(history)
    IN  (IF uctx # "" THEN <<LongTermLabel, uctx>> ELSE <<>>)
        \o (IF history # <<>> /\ recent_history # <<>>
            THEN <<HistoryLabel>>
                 \o Concat([i \in 1..Len(recent_history) |->
                              RenderInteraction(i, recent_history[i])])
            ELSE <<>>)
        \o <<"Usuario ID: " \o uid, CurrentLabel, msg>>

\* a variant without the "if history" guard
BuildContextPartsHistoryAlways(msg, uid, history, uctx) ==
    LET recent_history == RecentHistory(history)
    IN  (IF uctx # "" THEN <<LongTermLabel, uctx>> ELSE <<>>)
        \o <<HistoryLabel>>
        \o Concat([i \in 1..Len(recent_history) |->
                     RenderInteraction(i, recent_history[i])])
        \o <<CurrentLabel, msg>>

BuildContextParts(msg, uid, history, uctx) ==
    LET recent_history == RecentHistory(history)
    IN  (IF uctx # "" THEN <<LongTermLabel, uctx>> ELSE <<>>)
        \o (IF history # <<>> /\ recent_history # <<>>
            THEN <<HistoryLabel>>
                 \o Concat([i \in 1..Len(recent_history) |->
                              RenderInteraction(i, recent_history[i])])
            ELSE <<>>)
        \o <<CurrentLabel, msg>>

\* a variant that stamps the text with the time of the call
BuildContextualizedMessageStamped(msg, uid, history, uctx) ==
    Join(BuildContextParts(msg, uid, history, uctx) \o <<ToString(clock)>>, "\n")

BuildContextualizedMessage(msg, uid, history, uctx) ==
    Join(BuildContextParts(msg, uid, history, uctx), "\n")

(***************************************************************************)
(* CustomerServiceOrchestrator._get_conversation_history, lines 692-704,   *)
(* and _save_interaction, lines 706-737.  read_ok and write_ok say whether *)
(* context.memory.get and context.memory.set return or raise.              *)
(***************************************************************************)
GetConversationHistory(has_mem, stored, read_ok) ==
    IF ~has_mem THEN <<>>
    ELSE IF read_ok THEN stored
    ELSE <<>>

\* a variant that keeps the preview of the response that the context shows
NewInteractionPreview(now, uid, user_message, agent_response, sid) ==
    [timestamp |-> now, user_id |-> uid, user_message |-> user_message,
     agent_response |-> FirstN(agent_response, ResponsePreviewLen),
     session_id |-> sid]

NewInteraction(now, uid, user_message, agent_response, sid) ==
    [timestamp |-> now, user_id |-> uid, user_message |-> user_message,
     agent_response |-> agent_response, session_id |-> sid]

\* a variant that keeps the oldest turns, history[:10]
AppendAndLimitKeepOldest(history, new_interaction) ==
    FirstN(Append(history, new_interaction), 10)

\* a variant that puts the new turn first
AppendFirstAndLimit(history, new_interaction) ==
    LastN(<<new_interaction>> \o history, MaxStoredHistory)

\* a variant that appends the turn twice
AppendTwiceAndLimit(history, new_interaction) ==
    LastN(Append(Append(history, new_interaction), new_interaction),
          MaxStoredHistory)

\* history.append(new_interaction); if len(history) > 10: history = history[-10:]
AppendAndLimit(history, new_interaction) ==
    LET h == Append(history, new_interaction)
    IN  IF Len(h) > MaxStoredHistory THEN LastN(h, MaxStoredHistory) ELSE h

\* the value of context.memory['conversation_history'] after _save_interaction
SaveInteraction(has_mem, stored, read_ok, write_ok, new_interaction) ==
    IF ~has_mem THEN stored
    ELSE IF write_ok
         THEN AppendAndLimit(GetConversationHistory(has_mem, stored, read_ok),
                             new_interaction)
         ELSE stored

(***************************************************************************)
(* Input sets.                                                             *)
(***************************************************************************)
Messages == {"hola", "como pago con OXXO"}
UserIds == {"123", "247"}
SessionIds == {"", "s1"}
ShortResponse == "Hola, soy Max"
LongResponse == Repeat("Puedes pagar en OXXO. ", 6)
MemoryPool == {[content |-> ""], [content |-> "prefiere pagar en OXXO"]}

\* The inputs at which every cap of context assembly is reached with items of
\* KnowledgePreviewLen characters, and the length of the text assembled there.
SaturatedTurn ==
    NewInteraction(0, "123", Repeat("x", KnowledgePreviewLen),
                   Repeat("r", ResponsePreviewLen), "s1")
SaturatedMemory == [content |-> Repeat("m", KnowledgePreviewLen)]
SaturatedOverhead ==
    Len(BuildContextualizedMessage("", "",
            <<SaturatedTurn, SaturatedTurn, SaturatedTurn>>,
            GetUserContext(<<SaturatedMemory, SaturatedMemory, SaturatedMemory>>,
                           <<SaturatedMemory, SaturatedMemory>>,
                           <<SaturatedMemory, SaturatedMemory>>, "s1")))
\* one stored turn and one stored memory longer than all of that
HugeText == Repeat("x", SaturatedOverhead + 1)
HugeTurn == NewInteraction(0, "123", HugeText, ShortResponse, "s1")
HugeMemory == [content |-> HugeText]

TurnPool ==
    {NewInteraction(0, "123", "hola", ShortResponse, "s1"),
     NewInteraction(1, "123", "como pago con OXXO", LongResponse, "s1")}

(***************************************************************************)
(* SpecContext: the two context-assembly functions applied to inputs drawn *)
(* from bounded sets.                                                      *)
(***************************************************************************)
NoFaults == [read |-> 0, write |-> 0]

NoResult == [kind |-> "none"]

\* no knowledge tool is being run
NoKnowledge ==
    /\ index = <<>>
    /\ kb_call = NoResult
    /\ results = NoResult
    /\ search_result = NoResult

\* no memory-manager call is being run on its own
NoMemoryCall ==
    /\ mem_call = [op |-> "none"]
    /\ mem_result = NoResult

\* no request is being handled
NoTurn ==
    /\ NoKnowledge
    /\ NoMemoryCall
    /\ writers = <<>>
    /\ attempts = 0
    /\ calls = {}
    /\ call_log = <<>>
    /\ payload = [prompt |-> "", user_id |-> ""]
    /\ context_session_id = ""
    /\ entry_session_id = ""
    /\ start_time = 0
    /\ memory_client = FALSE
    /\ events = <<>>
    /\ response = NoResult
    /\ exc = ""
    /\ chat_result = NoResult
    /\ envelope = NoResult

NoMemories ==
    [user_preferences |-> <<>>, conversation_summaries |-> <<>>,
     semantic_memory |-> <<>>]

InitContext ==
    /\ pc = "ctx_idle"
    /\ clock = 0
    /\ session_id = ""
    /\ message = ""
    /\ user_id = ""
    /\ memories = NoMemories
    /\ user_context = ""
    /\ conversation_history = <<>>
    /\ contextualized_message = ""
    /\ has_memory = TRUE
    /\ stored_history = <<>>
    /\ appended = <<>>
    /\ store_faults = NoFaults
    /\ NoTurn

MemoryInputs ==
    [user_preferences : BoundedSeqs(MemoryPool, MaxPrefs),
     conversation_summaries : BoundedSeqs(MemoryPool, MaxItems),
     semantic_memory : BoundedSeqs(MemoryPool, MaxItems)]

\* get_user_context(actor_id, session_id) over what the store holds
ApplyGetUserContext ==
    /\ pc = "ctx_idle"
    /\ \E mem \in MemoryInputs, sid \in SessionIds :
         /\ memories' = mem
         /\ session_id' = sid
         /\ user_context' = GetUserContext(mem.user_preferences,
                                           mem.conversation_summaries,
                                           mem.semantic_memory, sid)
    /\ pc' = "got_user_context"
    /\ UNCHANGED <<clock, message, user_id, conversation_history,
                   contextualized_message, has_memory, stored_history, appended,
                   store_faults, turnVars>>

UserContextPool ==
    {"",
     GetUserContext(<<[content |-> "prefiere pagar en OXXO"]>>, <<>>, <<>>, "s1"),
     GetUserContext(<<[content |-> "prefiere pagar en OXXO"]>>,
                    <<[content |-> "pregunto por su factura"]>>,
                    <<[content |-> "plan anual"]>>, "s1"),
     GetUserContext(<<HugeMemory>>, <<>>, <<>>, "s1")}

HistoryInputs == BoundedSeqs(TurnPool, MaxHist) \cup {<<HugeTurn>>}

\* chat's locals at line 659, before _build_contextualized_message is called
LoadContextInputs ==
    /\ pc = "ctx_idle"
    /\ \E msg \in Messages, uid \in UserIds,
          history \in HistoryInputs, uctx \in UserContextPool :
         /\ message' = msg
         /\ user_id' = uid
         /\ stored_history' = history
         /\ conversation_history' = GetConversationHistory(has_memory, history, TRUE)
         /\ user_context' = uctx
    /\ pc' = "ctx_inputs"
    /\ UNCHANGED <<clock, session_id, memories, contextualized_message,
                   has_memory, appended, store_faults, turnVars>>

\* line 659
ApplyBuildContext ==
    /\ pc = "ctx_inputs"
    /\ contextualized_message' =
           BuildContextualizedMessage(message, user_id, conversation_history,
                                      user_context)
    /\ pc' = "context_built"
    /\ UNCHANGED <<clock, session_id, message, user_id, memories, user_context,
                   conversation_history, has_memory, stored_history, appended,
                   store_faults, turnVars>>

\* time passes
Tick ==
    /\ pc \in {"ctx_inputs", "context_built"}
    /\ clock < MaxClock
    /\ clock' = clock + 1
    /\ UNCHANGED <<pc, session_id, message, user_id, memories, user_context,
                   conversation_history, contextualized_message, has_memory,
                   stored_history, appended, store_faults, turnVars>>

NextContext ==
    \/ ApplyGetUserContext
    \/ LoadContextInputs
    \/ ApplyBuildContext
    \/ Tick

SpecContext == InitContext /\ [][NextContext]_vars

(***************************************************************************)
(* More string helpers.                                                    *)
(***************************************************************************)
CharAt(s, i) == SubSeq(s, i, i)

IsSpace(c) == c \in {" ", "\t", "\n", "\r"}

\* s.strip()
Strip(s) ==
    LET keep == {i \in 1..Len(s) : ~IsSpace(CharAt(s, i))}
    IN  IF keep = {} THEN ""
        ELSE SubSeq(s, CHOOSE i \in keep : \A j \in keep : i <= j,
                       CHOOSE i \in keep : \A j \in keep : j <= i)

LowerChar(c) ==
    CASE c = "A" -> "a" [] c = "B" -> "b" [] c = "C" -> "c" [] c = "D" -> "d"
      [] c = "E" -> "e" [] c = "F" -> "f" [] c = "G" -> "g" [] c = "H" -> "h"
      [] c = "I" -> "i" [] c = "J" -> "j" [] c = "K" -> "k" [] c = "L" -> "l"
      [] c = "M" -> "m" [] c = "N" -> "n" [] c = "O" -> "o" [] c = "P" -> "p"
      [] c = "Q" -> "q" [] c = "R" -> "r" [] c = "S" -> "s" [] c = "T" -> "t"
      [] c = "U" -> "u" [] c = "V" -> "v" [] c = "W" -> "w" [] c = "X" -> "x"
      [] c = "Y" -> "y" [] c = "Z" -> "z" [] OTHER -> c

RECURSIVE LowerRange(_, _, _)
\* s[i-1:j].lower(), by halves
LowerRange(s, i, j) ==
    IF i > j THEN ""
    ELSE IF i = j THEN LowerChar(CharAt(s, i))
    ELSE LET m == (i + j) \div 2
         IN  LowerRange(s, i, m) \o LowerRange(s, m + 1, j)

\* s.lower()
Lower(s) == LowerRange(s, 1, Len(s))

\* the places where sub occurs in s
Occurrences(s, sub) ==
    {i \in 1..(Len(s) - Len(sub) + 1) : SubSeq(s, i, i + Len(sub) - 1) = sub}

\* sub in s
Contains(s, sub) == Occurrences(s, sub) # {}

\* s.count(sub), for a sub that cannot overlap itself
Count(s, sub) == Cardinality(Occurrences(s, sub))

(***************************************************************************)
(* agentcore_app.validate_agentcore_payload, lines 16-52.                  *)
(***************************************************************************)
PromptRequired == "Campo 'prompt' es requerido y no puede estar vacio"
UserIdRequired == "Campo 'user_id' es requerido y no puede estar vacio"

\* payload.get(key, default)
Get(p, key, default) == IF key \in DOMAIN p THEN p[key] ELSE default

\* a variant that asks for the user id first
ValidatePayloadUserIdFirst(p) ==
    LET user_query == Strip(Get(p, "prompt", ""))
        uid == Strip(Get(p, "user_id", ""))
    IN  IF uid = ""
        THEN [is_valid |-> FALSE, user_query |-> "", user_id |-> "",
              error_message |-> UserIdRequired]
        ELSE IF user_query = ""
        THEN [is_valid |-> FALSE, user_query |-> "", user_id |-> "",
              error_message |-> PromptRequired]
        ELSE [is_valid |-> TRUE, user_query |-> user_query, user_id |-> uid,
              error_message |-> ""]

\* a variant that tests the fields without stripping them
ValidatePayloadUnstripped(p) ==
    LET user_query == Get(p, "prompt", "")
        uid == Get(p, "user_id", "")
    IN  IF user_query = ""
        THEN [is_valid |-> FALSE, user_query |-> "", user_id |-> "",
              error_message |-> PromptRequired]
        ELSE IF uid = ""
        THEN [is_valid |-> FALSE, user_query |-> "", user_id |-> "",
              error_message |-> UserIdRequired]
        ELSE [is_valid |-> TRUE, user_query |-> user_query, user_id |-> uid,
              error_message |-> ""]

ValidatePayload(p) ==
    LET user_query == Strip(Get(p, "prompt", ""))
        uid == Strip(Get(p, "user_id", ""))
    IN  IF user_query = ""
        THEN [is_valid |-> FALSE, user_query |-> "", user_id |-> "",
              error_message |-> PromptRequired]
        ELSE IF uid = ""
        THEN [is_valid |-> FALSE, user_query |-> "", user_id |-> "",
              error_message |-> UserIdRequired]
        ELSE [is_valid |-> TRUE, user_query |-> user_query, user_id |-> uid,
              error_message |-> ""]

(***************************************************************************)
(* The completion capability.  The system prompt asks for one JSON object  *)
(* {"response", "tools_used", "need_to_escalate"} (src/prompts.py, lines   *)
(* 93-97); str(response) is that object's text.                            *)
(***************************************************************************)
QuotedList(items) ==
    Join([i \in 1..Len(items) |-> "\"" \o items[i] \o "\""], ", ")

\* str(response) of a structured output
CompletionText(out) ==
    "{\"response\": \"" \o out.response \o "\", \"tools_used\": ["
    \o QuotedList(out.tools_used) \o "], \"need_to_escalate\": \""
    \o out.need_to_escalate \o "\"}"

(***************************************************************************)
(* customer_service_agent (the entrypoint), lines 104-156: what it derives *)
(* from chat's text and the envelopes it returns.                          *)
(***************************************************************************)
\* lines 108-110
ToolsUsed(text) ==
    LET lowered == Lower(text)
    IN  (IF Contains(lowered, "base de conocimientos")
         THEN <<"search_knowledge_base", "knowledge_assistant">> ELSE <<>>)
        \o (IF Contains(lowered, "escalando a agente humano")
            THEN <<"escalate_to_human">> ELSE <<>>)

Range(f) == {f[i] : i \in DOMAIN f}

\* lines 112-114
AgentsInvolved(tools_used) ==
    <<"orchestrator">>
    \o (IF tools_used # <<>> /\ "knowledge_assistant" \in Range(tools_used)
        THEN <<"knowledge_assistant">> ELSE <<>>)

\* line 116
BedrockQueries(text) ==
    LET lowered == Lower(text)
    IN  Count(lowered, "bedrock") + Count(lowered, "base de conocimientos")

\* lines 118-137
SuccessEnvelope(text, sid, uid, start, end, ctx_has_memory) ==
    LET tools_used == ToolsUsed(text)
    IN  [kind |-> "returned",
         success |-> TRUE,
         data |-> [response |-> text,
                   session_info |-> [session_id |-> sid, user_id |-> uid,
                                     timestamp |-> end],
                   execution_details |->
                       [tools_used |-> tools_used,
                        agents_involved |-> AgentsInvolved(tools_used),
                        bedrock_queries |-> BedrockQueries(text),
                        processing_time_seconds |-> end - start,
                        memory_context |-> ctx_has_memory,
                        conversation_history_available |-> TRUE]]]

\* lines 75-83
ValidationEnvelope(error_message, sid, start) ==
    [kind |-> "returned",
     success |-> FALSE,
     error |-> [message |-> error_message, session_id |-> sid,
                timestamp |-> start, source |-> "agentcore_validation"]]

\* lines 139-156
CriticalEnvelope(e, sid, uid, start, end) ==
    [kind |-> "returned",
     success |-> FALSE,
     error |-> [message |-> "Error critico en AgentCore customer service: " \o e,
                error_type |-> e, session_id |-> sid, user_id |-> uid,
                processing_time_seconds |-> end - start, timestamp |-> end]]

(***************************************************************************)
(* CustomerServiceOrchestrator.chat's except clause, lines 678-690.        *)
(***************************************************************************)
ErrorResponse(e) ==
    "# **Error del sistema**\n\n"
    \o "            Disculpa, he encontrado un problema tecnico. \n\n"
    \o "            # **Opciones disponibles:**\n"
    \o "            1. Intenta reformular tu consulta\n"
    \o "            2. Contacta directamente: +1-234-567-8900\n"
    \o "            3. Email: soporte@empresa.com\n\n"
    \o "            **Error**: " \o e

\* a variant that lets the exception out of chat
ChatExceptReraise(e) == [kind |-> "raised", exc |-> e]

\* chat ends by returning the error text
ChatExcept(e) == [kind |-> "returned", text |-> ErrorResponse(e)]

(***************************************************************************)
(* SpecHistory: one session whose turns are saved one after the other by   *)
(* _save_interaction.  The store's get or set may raise, MaxStoreFaults    *)
(* times in a run.                                                         *)
(***************************************************************************)
InitHistory ==
    /\ pc = "session"
    /\ clock = 0
    /\ session_id = "s1"
    /\ message = ""
    /\ user_id = "123"
    /\ memories = NoMemories
    /\ user_context = ""
    /\ conversation_history = <<>>
    /\ contextualized_message = ""
    /\ has_memory \in BOOLEAN
    /\ stored_history = <<>>
    /\ appended = <<>>
    /\ store_faults = NoFaults
    /\ NoTurn

\* the turn saved at a given time
MessageAt(now) == IF now % 2 = 0 THEN "hola" ELSE "como pago con OXXO"
ResponseAt(now) == IF now % 2 = 0 THEN ShortResponse ELSE LongResponse

\* _save_interaction(user_message, agent_response, user_id), lines 706-737
SaveInteractionCall ==
    /\ pc = "session"
    /\ clock < MaxSaves
    /\ \E read_ok \in BOOLEAN, write_ok \in BOOLEAN :
         LET raised == [read |-> IF read_ok THEN 0 ELSE 1,
                        write |-> IF write_ok THEN 0 ELSE 1]
             new_interaction ==
                 NewInteraction(clock, user_id, MessageAt(clock),
                                ResponseAt(clock), session_id)
         IN  /\ \/ read_ok /\ write_ok
                \/ /\ has_memory
                   /\ store_faults.read + store_faults.write
                        + raised.read + raised.write <= MaxStoreFaults
             /\ stored_history' =
                    SaveInteraction(has_memory, stored_history, read_ok,
                                    write_ok, new_interaction)
             /\ appended' = IF has_memory /\ write_ok
                             THEN Append(appended, new_interaction)
                             ELSE appended
             /\ store_faults' = [read |-> store_faults.read + raised.read,
                                 write |-> store_faults.write + raised.write]
    /\ clock' = clock + 1
    /\ UNCHANGED <<pc, session_id, message, user_id, memories, user_context,
                   conversation_history, contextualized_message, has_memory,
                   turnVars>>

\* time passes between two saves of the session
SessionIdle ==
    /\ pc = "session"
    /\ clock < MaxSaves
    /\ clock' = clock + 1
    /\ UNCHANGED <<pc, session_id, message, user_id, memories, user_context,
                   conversation_history, contextualized_message, has_memory,
                   stored_history, appended, store_faults, turnVars>>

NextHistory == SaveInteractionCall \/ SessionIdle

SpecHistory == InitHistory /\ [][NextHistory]_vars

\* C1: after N saves that were stored, the stored history has min(N, 10)
\* turns, the last min(N, 10) stored ones in insertion order; after 12 of
\* them it holds turns 3..12.  (While no read of the history has failed: a
\* failed read makes the save start over from an empty history.)
C1_HistoryIsLastTen ==
    /\ Len(stored_history) <= 10
    /\ (has_memory /\ store_faults.read = 0) =>
          LET n == Len(appended)
              k == Min(n, 10)
          IN  /\ Len(stored_history) = k
              /\ \A i \in 1..k : stored_history[i] = appended[n - k + i]
              /\ n = 12 => stored_history = SubSeq(appended, 3, 12)

C1_Witness ==
    /\ has_memory
    /\ store_faults = NoFaults
    /\ clock = 12
    /\ Len(appended) = 12
    /\ Len(stored_history) = 10
    /\ stored_history[1].timestamp = 2
    /\ stored_history[10].timestamp = 11

(***************************************************************************)
(* Spec: one request, from the entrypoint's first line to the envelope it  *)
(* returns, one action per step of customer_service_agent and of chat.     *)
(* Every outbound call may raise.  The request arrives in any state of the *)
(* session store and of the long-term memory.                              *)
(***************************************************************************)
Prompts == {"", "  ", " como pago con OXXO "}
PayloadUserIds == {"", "  ", "123", " 247 "}
PayloadFields == {"prompt", "user_id"}
Exceptions == {"ConnectionError", "Timeout"}
NamespaceTypes == {"user_preferences", "conversation_summaries", "semantic_memory"}

Completions ==
    {[response |-> "Puedes pagar en cualquier tienda OXXO.",
      tools_used |-> <<"Knowledge Assistant">>, need_to_escalate |-> "false"],
     [response |-> "Segun la base de conocimientos, puedes pagar en OXXO.",
      tools_used |-> <<"Knowledge Assistant">>, need_to_escalate |-> "false"],
     [response |-> "Escalando a agente humano por tu solicitud.",
      tools_used |-> <<"Escalation">>, need_to_escalate |-> "true"],
     [response |-> "Te comunico con un asesor.",
      tools_used |-> <<"Escalation">>, need_to_escalate |-> "true"]}

FullHistory ==
    [i \in 1..MaxStoredHistory |->
        NewInteraction(i, "123", MessageAt(i), ResponseAt(i), "s1")]

PriorTurns == {NewInteraction(1, "123", "hola", LongResponse, "s1")}

PriorHistories == BoundedSeqs(PriorTurns, MaxPrior) \cup {FullHistory}

MemoryStates ==
    {NoMemories,
     [user_preferences |-> <<[content |-> "prefiere pagar en OXXO"]>>,
      conversation_summaries |-> <<[content |-> "pregunto por su factura"]>>,
      semantic_memory |-> <<>>]}

Init ==
    /\ pc = "idle"
    /\ clock = 11
    /\ session_id = ""
    /\ message = ""
    /\ user_id = ""
    /\ memories \in MemoryStates
    /\ user_context = ""
    /\ conversation_history = <<>>
    /\ contextualized_message = ""
    /\ has_memory \in BOOLEAN
    /\ stored_history \in (IF has_memory THEN PriorHistories ELSE {<<>>})
    /\ appended = <<>>
    /\ store_faults = NoFaults
    /\ payload = [prompt |-> "", user_id |-> ""]
    /\ context_session_id \in SessionIds
    /\ entry_session_id = ""
    /\ start_time = 0
    /\ memory_client \in BOOLEAN
    /\ events = <<>>
    /\ response = NoResult
    /\ exc = ""
    /\ chat_result = NoResult
    /\ envelope = NoResult
    /\ calls = {}
    /\ call_log = <<>>
    /\ NoKnowledge
    /\ NoMemoryCall
    /\ writers = <<>>
    /\ attempts = 0

\* a variant that always makes a new session id
EntrySessionIdFresh(ctx_sid, start) == "agentcore_" \o ToString(start)

\* line 68: context.session_id or f"agentcore_{start_time...}"
EntrySessionId(ctx_sid, start) ==
    IF ctx_sid # "" THEN ctx_sid ELSE "agentcore_" \o ToString(start)

\* customer_service_agent, lines 67-97
ReceiveRequest ==
    /\ pc = "idle"
    /\ \E prompt \in Prompts, uid \in PayloadUserIds,
          fields \in SUBSET PayloadFields :
         LET p == [k \in fields |-> IF k = "prompt" THEN prompt ELSE uid]
             sid == EntrySessionId(context_session_id, clock)
             v == ValidatePayload(p)
         IN  /\ payload' = p
             /\ start_time' = clock
             /\ entry_session_id' = sid
             /\ IF v.is_valid
                THEN /\ message' = v.user_query
                     /\ user_id' = v.user_id
                     /\ context_session_id' =
                            IF context_session_id = "" THEN sid
                            ELSE context_session_id
                     /\ pc' = "create_orchestrator"
                     /\ UNCHANGED envelope
                ELSE /\ envelope' = ValidationEnvelope(v.error_message, sid, clock)
                     /\ pc' = "done"
                     /\ UNCHANGED <<message, user_id, context_session_id>>
    /\ UNCHANGED <<clock, session_id, memories, user_context, conversation_history,
                   contextualized_message, has_memory, stored_history, appended,
                   store_faults, memory_client, events, response, exc,
                   chat_result>>
    /\ UNCHANGED <<calls, call_log, toolVars>>

\* AgentCoreMemoryManager.format_actor_id, lines 246-248
FormatActorId(uid) == "customer_" \o uid

\* get_user_context, lines 346-401: the namespace types in the order they
\* are read
NamespaceOrder ==
    <<"user_preferences", "conversation_summaries", "semantic_memory">>

\* one request of the turn, as call_log keeps it: the operation, the actor
\* id it names ("" where it names none) and whether it succeeded
LogEntry(op, actor_id, ok) == [op |-> op, actor_id |-> actor_id, ok |-> ok]

\* CustomerServiceOrchestrator.__init__, line 606: the actor id given to
\* the memory tool provider
ProviderActorId(sid) == "customer_agent_" \o sid

\* line 99 and CustomerServiceOrchestrator.__init__, lines 593-634.  The
\* memory tool provider is made when the memory library is there, which is
\* when the memory manager has its client.
CreateOrchestrator ==
    /\ pc = "create_orchestrator"
    /\ \/ /\ session_id' = context_session_id
          /\ pc' = "get_user_context"
          /\ calls' = calls \cup {<<"create_orchestrator", TRUE>>}
          /\ call_log' =
                 IF memory_client
                 THEN Append(call_log,
                             LogEntry("memory_tools",
                                      ProviderActorId(context_session_id), TRUE))
                 ELSE call_log
          /\ UNCHANGED exc
       \/ \E e \in Exceptions :
            /\ exc' = e
            /\ pc' = "entry_except"
            /\ calls' = calls \cup {<<"create_orchestrator", FALSE>>}
            /\ UNCHANGED <<session_id, call_log>>
    /\ UNCHANGED <<clock, message, user_id, memories, user_context,
                   conversation_history, contextualized_message, has_memory,
                   stored_history, appended, store_faults, payload,
                   context_session_id, entry_session_id, start_time,
                   memory_client, events, response, chat_result, envelope>>
    /\ UNCHANGED toolVars

\* a variant that answers a failed call with what it last held
RetrieveMemoriesStale(client, call_ok, held) == held

\* AgentCoreMemoryManager.retrieve_memories, lines 289-344: the memories
\* list of its result
RetrieveMemories(client, call_ok, held) ==
    IF ~client THEN <<>>
    ELSE IF call_ok THEN held
    ELSE <<>>

\* chat, lines 651-653
ChatGetUserContext ==
    /\ pc = "get_user_context"
    /\ \E call_ok \in [NamespaceTypes -> BOOLEAN] :
         /\ memory_client \/ \A ns \in NamespaceTypes : call_ok[ns]
         /\ calls' = calls \cup
                (IF memory_client /\ user_id # "" /\ session_id # ""
                 THEN {<<ns, call_ok[ns]>> : ns \in NamespaceTypes}
                 ELSE {})
         /\ call_log' =
                IF memory_client /\ user_id # "" /\ session_id # ""
                THEN call_log \o
                     [i \in 1..Len(NamespaceOrder) |->
                         LogEntry("retrieve_memories", FormatActorId(user_id),
                                  call_ok[NamespaceOrder[i]])]
                ELSE call_log
         /\ user_context' =
             IF user_id # "" /\ session_id # ""
             THEN GetUserContext(
                      RetrieveMemories(memory_client, call_ok["user_preferences"],
                                       memories.user_preferences),
                      RetrieveMemories(memory_client,
                                       call_ok["conversation_summaries"],
                                       memories.conversation_summaries),
                      RetrieveMemories(memory_client, call_ok["semantic_memory"],
                                       memories.semantic_memory),
                      session_id)
             ELSE ""
    /\ pc' = "get_history"
    /\ UNCHANGED <<clock, session_id, message, user_id, memories,
                   conversation_history, contextualized_message, has_memory,
                   stored_history, appended, store_faults, entryVars, toolVars>>

\* chat, line 656
ChatGetHistory ==
    /\ pc = "get_history"
    /\ \E read_ok \in BOOLEAN :
         /\ read_ok \/ has_memory
         /\ conversation_history' =
                GetConversationHistory(has_memory, stored_history, read_ok)
         /\ store_faults' = [store_faults EXCEPT
                                !.read = @ + (IF read_ok THEN 0 ELSE 1)]
         /\ calls' = calls \cup
                (IF has_memory THEN {<<"history_get", read_ok>>} ELSE {})
         /\ call_log' =
                IF has_memory
                THEN Append(call_log, LogEntry("history_get", "", read_ok))
                ELSE call_log
    /\ pc' = "build_context"
    /\ UNCHANGED <<clock, session_id, message, user_id, memories, user_context,
                   contextualized_message, has_memory, stored_history, appended,
                   entryVars, toolVars>>

\* chat, line 659
ChatBuildContext ==
    /\ pc = "build_context"
    /\ \/ /\ contextualized_message' =
                 BuildContextualizedMessage(message, user_id, conversation_history,
                                            user_context)
          /\ pc' = "complete"
          /\ calls' = calls \cup {<<"build_context", TRUE>>}
          /\ UNCHANGED exc
       \/ /\ exc' = "TypeError"
          /\ pc' = "chat_except"
          /\ calls' = calls \cup {<<"build_context", FALSE>>}
          /\ UNCHANGED contextualized_message
    /\ UNCHANGED <<clock, session_id, message, user_id, memories, user_context,
                   conversation_history, has_memory, stored_history, appended,
                   store_faults, payload, context_session_id, entry_session_id,
                   start_time, memory_client, events, response, chat_result,
                   envelope>>
    /\ UNCHANGED <<call_log, toolVars>>

\* a variant that answers a failed completion with a stock reply
CompletionSwallowed(e) ==
    [kind |-> "returned", output |-> CHOOSE out \in Completions : TRUE]

\* chat, line 662: the orchestrator agent call raises e, which leaves the
\* try block for the except clause of line 678
CompletionRaised(e) == [kind |-> "raised", exc |-> e]

\* chat, line 662: the orchestrator agent call
ChatComplete ==
    /\ pc = "complete"
    /\ \/ \E out \in Completions :
            /\ response' = [kind |-> "returned", output |-> out]
            /\ calls' = calls \cup {<<"completion", TRUE>>}
            /\ call_log' = Append(call_log, LogEntry("completion", "", TRUE))
       \/ \E e \in Exceptions :
            /\ response' = CompletionRaised(e)
            /\ calls' = calls \cup {<<"completion", FALSE>>}
            /\ call_log' = Append(call_log, LogEntry("completion", "", FALSE))
    /\ IF response'.kind = "returned"
       THEN pc' = "save_interaction" /\ UNCHANGED exc
       ELSE pc' = "chat_except" /\ exc' = response'.exc
    /\ clock' = clock + 1
    /\ UNCHANGED <<session_id, message, user_id, memories, user_context,
                   conversation_history, contextualized_message, has_memory,
                   stored_history, appended, store_faults, payload,
                   context_session_id, entry_session_id, start_time,
                   memory_client, events, chat_result, envelope>>
    /\ UNCHANGED toolVars

\* chat, line 665
ChatSaveInteraction ==
    /\ pc = "save_interaction"
    /\ \E read_ok \in BOOLEAN, write_ok \in BOOLEAN :
         LET new_interaction ==
                 NewInteraction(clock, user_id, message,
                                CompletionText(response.output), session_id)
         IN  /\ (read_ok /\ write_ok) \/ has_memory
             /\ stored_history' =
                    SaveInteraction(has_memory, stored_history, read_ok,
                                    write_ok, new_interaction)
             /\ appended' = IF has_memory /\ write_ok
                             THEN Append(appended, new_interaction)
                             ELSE appended
             /\ calls' = calls \cup
                    (IF has_memory
                     THEN {<<"history_get", read_ok>>, <<"history_set", write_ok>>}
                     ELSE {})
             /\ call_log' =
                    IF has_memory
                    THEN call_log \o <<LogEntry("history_get", "", read_ok),
                                       LogEntry("history_set", "", write_ok)>>
                    ELSE call_log
             /\ store_faults' =
                    [read |-> store_faults.read + (IF read_ok THEN 0 ELSE 1),
                     write |-> store_faults.write + (IF write_ok THEN 0 ELSE 1)]
    /\ pc' = "create_event"
    /\ UNCHANGED <<clock, session_id, message, user_id, memories, user_context,
                   conversation_history, contextualized_message, has_memory,
                   entryVars, toolVars>>

\* AgentCoreMemoryManager.create_event, lines 250-287: its return value
CreateEvent(client, call_ok) == client /\ call_ok

\* a variant that reports a turn whose event was not written as failed
ChatReturnIfSaved(text, event_saved) ==
    IF event_saved THEN [kind |-> "returned", text |-> text]
    ELSE [kind |-> "returned", text |-> ErrorResponse("event not saved")]

\* chat, lines 673-676: create_event's result is dropped and str(response)
\* is returned
ChatReturn(text, event_saved) == [kind |-> "returned", text |-> text]

\* chat, lines 668-676
ChatCreateEvent ==
    /\ pc = "create_event"
    /\ \E call_ok \in BOOLEAN :
         LET text == CompletionText(response.output)
             event == [actor_id |-> FormatActorId(user_id),
                       session_id |-> session_id,
                       messages |-> <<message, text>>]
         IN  /\ call_ok \/ memory_client
             /\ events' = IF user_id # "" /\ session_id # ""
                             /\ CreateEvent(memory_client, call_ok)
                          THEN Append(events, event)
                          ELSE events
             /\ calls' = calls \cup
                    (IF memory_client /\ user_id # "" /\ session_id # ""
                     THEN {<<"create_event", call_ok>>} ELSE {})
             /\ call_log' =
                    IF memory_client /\ user_id # "" /\ session_id # ""
                    THEN Append(call_log,
                                LogEntry("create_event", FormatActorId(user_id),
                                         call_ok))
                    ELSE call_log
             /\ chat_result' =
                    ChatReturn(text, user_id # "" /\ session_id # ""
                                     /\ CreateEvent(memory_client, call_ok))
    /\ pc' = "chat_returned"
    /\ UNCHANGED <<clock, session_id, message, user_id, memories, user_context,
                   conversation_history, contextualized_message, has_memory,
                   stored_history, appended, store_faults, payload,
                   context_session_id, entry_session_id, start_time,
                   memory_client, response, exc, envelope>>
    /\ UNCHANGED toolVars

\* chat, lines 678-690
ChatExceptClause ==
    /\ pc = "chat_except"
    /\ chat_result' = ChatExcept(exc)
    /\ IF chat_result'.kind = "returned"
       THEN exc' = "" /\ pc' = "chat_returned"
       ELSE exc' = exc /\ pc' = "entry_except"
    /\ UNCHANGED <<clock, session_id, message, user_id, memories, user_context,
                   conversation_history, contextualized_message, has_memory,
                   stored_history, appended, store_faults, payload,
                   context_session_id, entry_session_id, start_time,
                   memory_client, events, response, envelope>>
    /\ UNCHANGED <<calls, call_log, toolVars>>

\* customer_service_agent, lines 102-137
EntryReturn ==
    /\ pc = "chat_returned"
    /\ envelope' = SuccessEnvelope(chat_result.text, entry_session_id, user_id,
                                   start_time, clock, has_memory)
    /\ pc' = "done"
    /\ UNCHANGED <<clock, session_id, message, user_id, memories, user_context,
                   conversation_history, contextualized_message, has_memory,
                   stored_history, appended, store_faults, payload,
                   context_session_id, entry_session_id, start_time,
                   memory_client, events, response, exc, chat_result>>
    /\ UNCHANGED <<calls, call_log, toolVars>>

\* customer_service_agent, lines 139-156
EntryExcept ==
    /\ pc = "entry_except"
    /\ envelope' = CriticalEnvelope(exc, entry_session_id, user_id, start_time,
                                    clock)
    /\ exc' = ""
    /\ pc' = "done"
    /\ UNCHANGED <<clock, session_id, message, user_id, memories, user_context,
                   conversation_history, contextualized_message, has_memory,
                   stored_history, appended, store_faults, payload,
                   context_session_id, entry_session_id, start_time,
                   memory_client, events, response, chat_result>>
    /\ UNCHANGED <<calls, call_log, toolVars>>

Next ==
    \/ ReceiveRequest
    \/ CreateOrchestrator
    \/ ChatGetUserContext
    \/ ChatGetHistory
    \/ ChatBuildContext
    \/ ChatComplete
    \/ ChatSaveInteraction
    \/ ChatCreateEvent
    \/ ChatExceptClause
    \/ EntryReturn
    \/ EntryExcept

Spec == Init /\ [][Next]_vars

(***************************************************************************)
(* Claims about a request, checked under Spec.                             *)
(***************************************************************************)
\* C2: whichever step of a turn fails (memory retrieval, context assembly,
\* the completion call, the session-history save, the event write), nothing
\* propagates: chat ends by returning a string and the entrypoint ends by
\* returning an envelope with a boolean success field.
C2_NoExceptionEscapes ==
    /\ chat_result.kind \in {"none", "returned"}
    /\ chat_result.kind = "returned" => chat_result.text \in STRING
    /\ envelope.kind \in {"none", "returned"}
    /\ pc = "done" =>
         /\ exc = ""
         /\ envelope.kind = "returned"
         /\ envelope.success \in BOOLEAN
         /\ pc # "entry_except"

C2_Witness ==
    /\ pc = "done"
    /\ response.kind = "raised"
    /\ store_faults.read > 0
    /\ chat_result.kind = "returned"
    /\ envelope.kind = "returned"

\* C3: when the completion call fails, the caller gets success = false and
\* an error with a message, the session id and the elapsed processing time.
C3_CompletionFailureSurfaced ==
    (pc = "done" /\ response.kind = "raised") =>
        /\ envelope.success = FALSE
        /\ {"message", "session_id", "processing_time_seconds"}
               \subseteq DOMAIN envelope.error

\* C4: need_to_escalate = "true" in the structured output always gives an
\* escalation decision of true in what the entrypoint returns, and outputs
\* with the same structured fields give the same escalation flag and tool
\* list whatever their response text.  (What the envelope says of escalation
\* is whether escalate_to_human is among execution_details.tools_used.)
EscalationDecision(env) ==
    "escalate_to_human" \in Range(env.data.execution_details.tools_used)

C4_EscalationFromStructuredOutput ==
    (pc = "done" /\ response.kind = "returned" /\ envelope.success) =>
        LET out == response.output
        IN  /\ out.need_to_escalate = "true" => EscalationDecision(envelope)
            /\ \A other \in Completions :
                 (/\ other.tools_used = out.tools_used
                  /\ other.need_to_escalate = out.need_to_escalate)
                 => ToolsUsed(CompletionText(other))
                        = envelope.data.execution_details.tools_used

\* the label get_user_context puts before the snippets of a namespace type
NamespaceLabel(ns) ==
    CASE ns = "user_preferences" -> PreferencesLabel
      [] ns = "conversation_summaries" -> SummariesLabel
      [] ns = "semantic_memory" -> SemanticLabel

\* get_user_context has returned in this request
UserContextTaken ==
    /\ <<"create_orchestrator", TRUE>> \in calls
    /\ pc # "get_user_context"

\* no call other than those to the memory store has failed
OnlyMemoryFaults ==
    \A step \in {"create_orchestrator", "build_context", "completion"} :
        <<step, FALSE>> \notin calls

C12_PersistenceBestEffort ==
    (response.kind = "returned" /\ pc \in {"chat_returned", "done"}) =>
        /\ chat_result = [kind |-> "returned",
                          text |-> CompletionText(response.output)]
        /\ pc = "done" =>
              /\ envelope.success
              /\ envelope.data.response = CompletionText(response.output)

C12_Witness ==
    /\ pc = "done"
    /\ <<"history_set", FALSE>> \in calls
    /\ <<"create_event", FALSE>> \in calls
    /\ events = <<>>
    /\ response.kind = "returned"
    /\ envelope.success
    /\ envelope.data.response = CompletionText(response.output)

\* the field is missing from the request, empty, or only whitespace
Blank(p, key) ==
    \/ key \notin DOMAIN p
    \/ \A i \in 1..Len(p[key]) : IsSpace(CharAt(p[key], i))

\* the request has been received and one of its required fields is blank
InvalidRequest ==
    /\ pc # "idle"
    /\ Blank(payload, "prompt") \/ Blank(payload, "user_id")

\* C13: a request whose prompt or user_id is missing, empty or only
\* whitespace gets a failure envelope whose message names the required
\* field; a blank prompt gives the message about the prompt field, also
\* when user_id is blank too.
C13_BlankFieldRejected ==
    InvalidRequest =>
        /\ pc = "done"
        /\ envelope.kind = "returned"
        /\ envelope.success = FALSE
        /\ Contains(envelope.error.message, "requerido")
        /\ Blank(payload, "prompt")
              => /\ Contains(envelope.error.message, "'prompt'")
                 /\ ~Contains(envelope.error.message, "'user_id'")
        /\ ~Blank(payload, "prompt")
              => /\ Contains(envelope.error.message, "'user_id'")
                 /\ ~Contains(envelope.error.message, "'prompt'")

C13_Witness ==
    /\ pc = "done"
    /\ "prompt" \notin DOMAIN payload
    /\ "user_id" \in DOMAIN payload
    /\ payload.user_id = "  "
    /\ envelope.success = FALSE
    /\ envelope.error.message = PromptRequired

\* C14: an invalid request is answered at once and touches nothing: no
\* orchestrator is created, no memory is read, the completion capability is
\* not called, and neither the session history nor the event log is
\* written.
C14_InvalidRequestNoSideEffect ==
    /\ [](InvalidRequest =>
            /\ calls = {}
            /\ session_id = ""
            /\ user_context = ""
            /\ conversation_history = <<>>
            /\ contextualized_message = ""
            /\ response = NoResult
            /\ chat_result = NoResult
            /\ appended = <<>>
            /\ store_faults = NoFaults
            /\ events = <<>>)
    /\ [][InvalidRequest' =>
            UNCHANGED <<stored_history, events, memories, context_session_id>>]_vars

C14_Witness ==
    /\ InvalidRequest
    /\ pc = "done"
    /\ has_memory
    /\ memory_client
    /\ stored_history # <<>>
    /\ memories # NoMemories
    /\ calls = {}

\* the turn failed inside chat, which answered with its error reply
TurnFailedInChat ==
    /\ chat_result.kind = "returned"
    /\ \/ <<"build_context", FALSE>> \in calls
       \/ <<"completion", FALSE>> \in calls

\* C15: every failure the caller can see carries a session id and a
\* timestamp: the validation and the critical failure envelopes, and the
\* error reply of a turn that failed inside the orchestrator.
C15_FailuresCarrySessionAndTime ==
    /\ (pc = "done" /\ envelope.success = FALSE) =>
          /\ {"session_id", "timestamp"} \subseteq DOMAIN envelope.error
          /\ envelope.error.session_id = entry_session_id
          /\ envelope.error.timestamp \in start_time..clock
    /\ TurnFailedInChat =>
          /\ Contains(chat_result.text, session_id)
          /\ \E t \in start_time..clock : Contains(chat_result.text, ToString(t))

\* C16: what the caller is told of a failure does not depend on the text of
\* the exception: two runs failing at the same step with different
\* exceptions give the same message.
C16_NoExceptionInternals ==
    /\ TurnFailedInChat =>
          \A e \in Exceptions : chat_result.text = ChatExcept(e).text
    /\ (pc = "done" /\ <<"create_orchestrator", FALSE>> \in calls) =>
          \A e \in Exceptions :
              envelope.error.message =
                  CriticalEnvelope(e, entry_session_id, user_id, start_time,
                                   clock).error.message

\* every turn the request stored, and every event it wrote, carries sid
PersistedUnder(sid) ==
    /\ \A i \in 1..Len(appended) : appended[i].session_id = sid
    /\ \A i \in 1..Len(events) : events[i].session_id = sid

\* the session id is chosen when the request is received: the caller's id
\* when the context has one, a generated id only when it has none, which is
\* then put in the context for the orchestrator; it never changes afterwards
SessionIdChosen ==
    /\ (pc = "idle" /\ pc' # "idle") =>
          /\ context_session_id # "" =>
                /\ entry_session_id' = context_session_id
                /\ context_session_id' = context_session_id
          /\ context_session_id = "" =>
                /\ entry_session_id' = "agentcore_" \o ToString(clock)
                /\ pc' # "done" => context_session_id' = entry_session_id'
    /\ pc # "idle" => UNCHANGED <<entry_session_id, context_session_id>>

\* the success envelope carries the session id of the request, which is the
\* one the orchestrator used for what it persisted
SessionIdentified ==
    (pc = "done" /\ envelope.success) =>
        /\ envelope.data.session_info.session_id = entry_session_id
        /\ session_id = entry_session_id
        /\ PersistedUnder(entry_session_id)

\* C17 as stated: the success envelope's user_id equals the request's
\* user_id; its session_id is the caller's when the context has one, and a
\* fallback id is generated only when it has none and is then the id the
\* orchestrator persists the turn under.
C17_EnvelopeIdentifiesRequest ==
    /\ [](SessionIdentified)
    /\ []((pc = "done" /\ envelope.success) =>
            envelope.data.session_info.user_id = payload.user_id)
    /\ [][SessionIdChosen]_vars

\* C17, amended: the success envelope's user_id equals the request's
\* user_id with the surrounding whitespace removed; the session id part is
\* as stated.
C17_EnvelopeIdentifiesStrippedUser ==
    /\ [](SessionIdentified)
    /\ []((pc = "done" /\ envelope.success) =>
            envelope.data.session_info.user_id = Strip(payload.user_id))
    /\ [][SessionIdChosen]_vars

C17_Witness ==
    /\ pc = "done"
    /\ envelope.success
    /\ payload.user_id = " 247 "
    /\ envelope.data.session_info.user_id = "247"
    /\ StartsWith(entry_session_id, "agentcore_")
    /\ Len(appended) = 1
    /\ Len(events) = 1

(***************************************************************************)
(* Claims about context assembly, checked under SpecContext.               *)
(***************************************************************************)
EndsWith(s, p) ==
    Len(s) >= Len(p) /\ SubSeq(s, Len(s) - Len(p) + 1, Len(s)) = p

IsTurnLine(l) == StartsWith(l, "Usuario: ") \/ StartsWith(l, "Agente: ")

\* the lines of an assembled text before the current-message label
LinesBeforeCurrent(text) ==
    LET ls == Lines(text) IN SubSeq(ls, 1, Len(ls) - 2)

\* C5: the assembled text holds at most 3 prior turns, exactly the last
\* min(3, len(history)) turns of the history in chronological order, each as
\* the user message followed by the agent response cut to 100 characters.
C5_RecentTurnsInOrder ==
    pc = "context_built" =>
        LET turns == SelectSeq(LinesBeforeCurrent(contextualized_message), IsTurnLine)
            h == conversation_history
            k == Min(3, Len(h))
        IN  /\ Len(turns) = 2 * k
            /\ \A i \in 1..k :
                 LET t == h[Len(h) - k + i]
                 IN  /\ turns[2 * i - 1] = "Usuario: " \o t.user_message
                     /\ turns[2 * i] =
                            "Agente: " \o FirstN(t.agent_response, 100) \o "..."
                     /\ Len(turns[2 * i]) <= 8 + 100 + 3

C5_Witness ==
    /\ pc = "context_built"
    /\ Len(conversation_history) = 4
    /\ conversation_history[1] # conversation_history[2]
    /\ Len(conversation_history[4].agent_response) > 100

\* C6: the long-term block holds at most 3 preference snippets, at most 2
\* summary snippets and at most 2 semantic snippets, and its namespace blocks
\* come in the order preferences, summaries, semantic.
LabelLines(ls, label) == {i \in DOMAIN ls : ls[i] = label}

SnippetsUnder(ls, i, labels) ==
    Cardinality({j \in DOMAIN ls :
                   /\ j > i
                   /\ StartsWith(ls[j], "- ")
                   /\ \A l \in labels : ~(i < l /\ l < j)})

C6_NamespaceCapsAndOrder ==
    pc = "got_user_context" =>
        LET ls == Lines(user_context)
            P == LabelLines(ls, "# **Informacion del usuario:**")
            S == LabelLines(ls, "# **Conversaciones anteriores:**")
            M == LabelLines(ls, "# **Contexto relacionado:**")
            labels == P \cup S \cup M
        IN  /\ Cardinality(P) <= 1 /\ Cardinality(S) <= 1 /\ Cardinality(M) <= 1
            /\ \A p \in P : \A q \in S \cup M : p < q
            /\ \A q \in S : \A m \in M : q < m
            /\ \A p \in P : SnippetsUnder(ls, p, labels) <= 3
            /\ \A q \in S : SnippetsUnder(ls, q, labels) <= 2
            /\ \A m \in M : SnippetsUnder(ls, m, labels) <= 2
            /\ \A j \in DOMAIN ls :
                 StartsWith(ls[j], "- ") => \E l \in labels : l < j

AllShown(mems) == \A i \in DOMAIN mems : mems[i].content # ""

C6_Witness ==
    /\ pc = "got_user_context"
    /\ session_id # ""
    /\ Len(memories.user_preferences) = 4 /\ AllShown(memories.user_preferences)
    /\ Len(memories.conversation_summaries) = 3
    /\ AllShown(memories.conversation_summaries)
    /\ Len(memories.semantic_memory) = 3 /\ AllShown(memories.semantic_memory)

\* C7: for a fixed current message the assembled text is no longer than the
\* message plus a constant fixed by the caps alone (3 turns, 3+2+2 snippets,
\* every item cut to a fixed maximum), whatever the stored turns and memories.
C7_ContextLengthBounded ==
    pc = "context_built" =>
        Len(contextualized_message) <= Len(message) + SaturatedOverhead

\* C8: the current message comes last and unmodified, after the session
\* history block, itself after the long-term memory block, and the text is
\* the same for every user_id.
C8_MessageLastNoUserId ==
    pc = "context_built" =>
        LET ls == Lines(contextualized_message)
            n == Len(ls)
            H == LabelLines(ls, "# **Contexto de conversacion actual:**")
            afterLongTerm == IF H = {} THEN n - 1 ELSE CHOOSE j \in H : TRUE
        IN  /\ EndsWith(contextualized_message, "\n" \o message)
            /\ ls[n - 1] = "# **Mensaje actual:**"
            /\ (conversation_history # <<>>) <=> (Cardinality(H) = 1)
            /\ \A j \in 1..(n - 2) :
                 IsTurnLine(ls[j]) => \E l \in H : l < j
            /\ user_context # "" =>
                 /\ ls[1] = "# **Memoria de largo plazo del usuario:**"
                 /\ Join(SubSeq(ls, 2, afterLongTerm - 1), "\n") = user_context
            /\ user_context = "" =>
                 ls[1] # "# **Memoria de largo plazo del usuario:**"
            /\ \A u \in UserIds :
                 BuildContextualizedMessage(message, u, conversation_history,
                                            user_context) = contextualized_message

C8_Witness ==
    /\ pc = "context_built"
    /\ user_context # ""
    /\ Len(conversation_history) >= 2

\* C9 as stated: with no long-term context and no session history the
\* assembled text equals the user's message.
C9_BareMessage ==
    (pc = "context_built" /\ user_context = "" /\ conversation_history = <<>>)
        => contextualized_message = message

\* C9 as amended: with no long-term context and no session history the
\* assembled text is the current-message label line followed by the unmodified
\* message, and nothing else.
C9_LabelAndMessageOnly ==
    (pc = "context_built" /\ user_context = "" /\ conversation_history = <<>>)
        => contextualized_message = "# **Mensaje actual:**\n" \o message

C9_Witness ==
    pc = "context_built" /\ user_context = "" /\ conversation_history = <<>>

ScoreOf(result) == Get(result, "score", 0)

\* lines 186-191: what retrieve keeps of a candidate
Kept(result) ==
    [content |-> Get(Get(result, "content", <<>>), "text", ""),
     score |-> ScoreOf(result)]

RECURSIVE FilterByScoreStrict(_, _)
\* a variant that drops the candidates scoring exactly min_score
FilterByScoreStrict(candidates, min_score) ==
    IF candidates = <<>> THEN <<>>
    ELSE (IF ScoreOf(Head(candidates)) > min_score
          THEN <<Kept(Head(candidates))>> ELSE <<>>)
         \o FilterByScoreStrict(Tail(candidates), min_score)

RECURSIVE FilterByScore(_, _)
\* lines 182-191
FilterByScore(candidates, min_score) ==
    IF candidates = <<>> THEN <<>>
    ELSE (IF ScoreOf(Head(candidates)) >= min_score
          THEN <<Kept(Head(candidates))>> ELSE <<>>)
         \o FilterByScore(Tail(candidates), min_score)

\* r put after the entries of a sorted list that score at least as much
InsertByScore(sorted, r) ==
    LET k == Cardinality({i \in 1..Len(sorted) : sorted[i].score >= r.score})
    IN  SubSeq(sorted, 1, k) \o <<r>> \o SubSeq(sorted, k + 1, Len(sorted))

RECURSIVE SortByScore(_)
\* line 194: results.sort(key=score, reverse=True), a stable sort
SortByScore(rs) ==
    IF rs = <<>> THEN <<>>
    ELSE InsertByScore(SortByScore(SubSeq(rs, 1, Len(rs) - 1)), rs[Len(rs)])

KnowledgeBaseId == "KB"

\* a variant whose failure result has no error marker
RetrieveExceptUnmarked(query, e) ==
    [results |-> <<>>, total_results |-> 0, query |-> query]

\* lines 205-220: both except clauses give the same result
RetrieveExcept(query, e) ==
    [results |-> <<>>, total_results |-> 0, query |-> query, error |-> e]

\* lines 166-220; outcome is how the index call of lines 169-179 ended
Retrieve(query, max_results, min_score, outcome) ==
    IF outcome.kind = "returned"
    THEN LET rs == SortByScore(FilterByScore(outcome.retrievalResults, min_score))
         IN  [results |-> rs, total_results |-> Len(rs), query |-> query,
              knowledge_base_id |-> KnowledgeBaseId]
    ELSE RetrieveExcept(query, outcome.exc)

\* lines 169-179: what the index may answer to a query asking for
\* numberOfResults results: that many of its best candidates, or all it has
\* when it has fewer, in any order
IndexResponses(idx, numberOfResults) ==
    LET n == Min(numberOfResults, Len(idx))
        best == {S \in SUBSET (1..Len(idx)) :
                    /\ Cardinality(S) = n
                    /\ \A i \in S, j \in (1..Len(idx)) \ S :
                          ScoreOf(idx[i]) >= ScoreOf(idx[j])}
    IN  UNION {{[k \in 1..n |-> idx[f[k]]] :
                    f \in {g \in [1..n -> S] : \A a, b \in 1..n :
                                                  a # b => g[a] # g[b]}} :
               S \in best}

(***************************************************************************)
(* search_knowledge_base, lines 447-504.                                   *)
(***************************************************************************)
Digit(d) == ToString(d)

\* f"{score:.2f}" of a score given in hundredths
FormatScore(h) ==
    ToString(h \div 100) \o "." \o Digit((h % 100) \div 10) \o Digit(h % 10)

\* line 487
ContentPreview(content) ==
    IF Len(content) > KnowledgePreviewLen
    THEN SubSeq(content, 1, KnowledgePreviewLen) \o "..."
    ELSE content

\* lines 489-491
FormatResult(i, result) ==
    "# **Resultado " \o ToString(i) \o "** (relevancia: "
    \o FormatScore(result.score) \o ")\n" \o ContentPreview(result.content)

FoundLabel == "# **Informacion encontrada en la base de conocimientos:**"

\* lines 474-501, from retrieve's result
FormattedResponse(res, query) ==
    LET total_results == Len(res.results)
        top_results == FirstN(res.results, TopResults)
        formatted_results ==
            [i \in 1..Len(top_results) |-> FormatResult(i, top_results[i])]
    IN  FoundLabel \o "\n\n"
        \o "# **" \o ToString(total_results) \o " resultados** para: \""
        \o query \o "\"\n\n"
        \o Join(formatted_results, "\n\n")
        \o (IF total_results > TopResults
            THEN "\n\n# *Se encontraron " \o ToString(total_results - TopResults)
                 \o " resultados adicionales. Puedes hacer una consulta mas"
                 \o " especifica para obtener informacion mas precisa.*"
            ELSE "")

\* lines 460-504; an exception raised inside the try block is logged and the
\* function ends without a return statement
SearchKnowledgeBase(query, outcome, format_ok) ==
    IF format_ok
    THEN [kind |-> "returned",
          text |-> FormattedResponse(
                       Retrieve(query, SearchMaxResults, SearchMinScore, outcome),
                       query)]
    ELSE [kind |-> "returned_none"]

(***************************************************************************)
(* SpecKnowledge: one call of retrieve, or one call of the tool            *)
(* search_knowledge_base, against an index holding up to MaxCandidates     *)
(* candidates.  The index call may raise.                                  *)
(***************************************************************************)
Queries == {"pago OXXO"}
ScorePool == {10, 25, 60}
MinScores == {0, 25, 100}
LongContent == Repeat("k", KnowledgePreviewLen + 1)

ContentAt(i) ==
    IF i = 1 THEN "Puedes pagar en cualquier tienda OXXO"
    ELSE IF i = 2 THEN LongContent
    ELSE "doc" \o ToString(i)

\* the candidates an index may hold at position i; the first may lack a score
CandidatesAt(i) ==
    {[content |-> [text |-> ContentAt(i)], score |-> sc] : sc \in ScorePool}
    \cup (IF i = 1 THEN {[content |-> [text |-> ContentAt(i)]]} ELSE {})

Corpora ==
    UNION {{idx \in [1..n -> UNION {CandidatesAt(i) : i \in 1..n}] :
                \A i \in 1..n : idx[i] \in CandidatesAt(i)} :
           n \in 0..MaxCandidates}

IndexOutcomes(idx, numberOfResults) ==
    {[kind |-> "returned", retrievalResults |-> r] :
        r \in IndexResponses(idx, numberOfResults)}
    \cup {[kind |-> "raised", exc |-> e] : e \in Exceptions}

sessionIdle == <<session_id, message, user_id, memories, user_context,
                 conversation_history, contextualized_message, has_memory,
                 stored_history, appended, store_faults>>

sessionVars == <<clock, session_id, message, user_id, memories, user_context,
                 conversation_history, contextualized_message, has_memory,
                 stored_history, appended, store_faults>>

InitKnowledge ==
    /\ pc = "kb_idle"
    /\ clock = 0
    /\ session_id = ""
    /\ message = ""
    /\ user_id = ""
    /\ memories = NoMemories
    /\ user_context = ""
    /\ conversation_history = <<>>
    /\ contextualized_message = ""
    /\ has_memory = FALSE
    /\ stored_history = <<>>
    /\ appended = <<>>
    /\ store_faults = NoFaults
    /\ payload = [prompt |-> "", user_id |-> ""]
    /\ context_session_id = ""
    /\ entry_session_id = ""
    /\ start_time = 0
    /\ memory_client = FALSE
    /\ events = <<>>
    /\ response = NoResult
    /\ exc = ""
    /\ chat_result = NoResult
    /\ envelope = NoResult
    /\ calls = {}
    /\ call_log = <<>>
    /\ NoMemoryCall
    /\ writers = <<>>
    /\ attempts = 0
    /\ index \in Corpora
    /\ kb_call = NoResult
    /\ results = NoResult
    /\ search_result = NoResult

\* bedrock_client.retrieve(query, max_results, min_score)
RetrieveCall ==
    /\ pc = "kb_idle"
    /\ \E query \in Queries, max_results \in 1..MaxResults,
          min_score \in MinScores :
         \E outcome \in IndexOutcomes(index, max_results) :
            /\ kb_call' = [query |-> query, max_results |-> max_results,
                           min_score |-> min_score, outcome |-> outcome]
            /\ results' = Retrieve(query, max_results, min_score, outcome)
    /\ pc' = "retrieved"
    /\ UNCHANGED <<index, search_result, sessionVars, entryVars, calls, call_log,
                   memVars, writers, attempts>>

\* search_knowledge_base(query)
SearchKnowledgeBaseCall ==
    /\ pc = "kb_idle"
    /\ \E query \in Queries, format_ok \in BOOLEAN :
         \E outcome \in IndexOutcomes(index, SearchMaxResults) :
            /\ kb_call' = [query |-> query, max_results |-> SearchMaxResults,
                           min_score |-> SearchMinScore, outcome |-> outcome]
            /\ results' = Retrieve(query, SearchMaxResults, SearchMinScore,
                                   outcome)
            /\ search_result' = SearchKnowledgeBase(query, outcome, format_ok)
    /\ pc' = "searched"
    /\ UNCHANGED <<index, sessionVars, entryVars, calls, call_log, memVars,
                   writers, attempts>>

NextKnowledge ==
    \/ RetrieveCall
    \/ SearchKnowledgeBaseCall

SpecKnowledge == InitKnowledge /\ [][NextKnowledge]_vars

(***************************************************************************)
(* Claims about the knowledge tools, checked under SpecKnowledge.          *)
(***************************************************************************)
\* retrieve has been called and has returned
RetrieveReturned == pc \in {"retrieved", "searched"}

C19_RetrieveFailureMarked ==
    RetrieveReturned =>
        /\ {"results", "total_results", "query"} \subseteq DOMAIN results
        /\ kb_call.outcome.kind = "raised" =>
              /\ results.results = <<>>
              /\ results.total_results = 0
              /\ "error" \in DOMAIN results
              /\ results.error = kb_call.outcome.exc
        /\ kb_call.outcome.kind = "returned" => "error" \notin DOMAIN results

C19_Witness ==
    /\ pc = "retrieved"
    /\ index # <<>>
    /\ kb_call.outcome.kind = "raised"
    /\ results.results = <<>>
    /\ results.error = "ConnectionError"

\* what search_knowledge_base answers when the search worked and found
\* nothing
NoResultsText(query) ==
    FormattedResponse([results |-> <<>>, total_results |-> 0, query |-> query],
                      query)

\* C20: search_knowledge_base always returns a message and never raises;
\* when the knowledge source fails, the message differs from the one of a
\* search that worked and found nothing, and does not present the lookup as
\* information found.
C20_SearchSafeFallback ==
    pc = "searched" =>
        /\ search_result.kind = "returned"
        /\ kb_call.outcome.kind = "raised" =>
              /\ search_result.text # NoResultsText(kb_call.query)
              /\ ~Contains(search_result.text, "encontrada")

(***************************************************************************)
(* The order of a turn's steps and what it persists, over call_log.        *)
(***************************************************************************)
\* the positions of call_log that hold a request of kind op
LogPositions(op) == {i \in DOMAIN call_log : call_log[i].op = op}

\* the requests that name an actor of the memory store
MemoryOps == {"memory_tools", "retrieve_memories", "create_event"}

\* C22: every read and write to the memory store for a user names the same
\* actor id, "customer_" followed by the user id: the event writes, the
\* namespace reads and the memory tools given to the orchestrator agent.
C22_OneActorIdPerUser ==
    /\ \A i \in DOMAIN call_log :
          call_log[i].op \in MemoryOps =>
              call_log[i].actor_id = FormatActorId(user_id)
    /\ \A i \in DOMAIN events : events[i].actor_id = FormatActorId(user_id)

\* the chat call has asked for everything it reads before the completion
ContextRead(i) ==
    /\ (memory_client /\ user_id # "" /\ session_id # "") =>
          Cardinality({j \in LogPositions("retrieve_memories") : j < i})
              = Len(NamespaceOrder)
    /\ has_memory => \E j \in LogPositions("history_get") : j < i

\* a step of the turn raised out of its try block
TurnFailed ==
    \E step \in {"create_orchestrator", "build_context", "completion"} :
        <<step, FALSE>> \in calls

C28_FailedCompletionPersistsNothing ==
    [][(<<"completion", FALSE>> \in calls') =>
          /\ stored_history' = stored_history
          /\ events' = events
          /\ appended' = <<>>
          /\ events' = <<>>]_vars

C28_Witness ==
    /\ pc = "done"
    /\ <<"completion", FALSE>> \in calls
    /\ has_memory
    /\ memory_client
    /\ stored_history # <<>>

\* the turn completed and went through both persistence steps, with a user
\* id, a session id, a session store and a memory client
TurnPersisted ==
    /\ pc \in {"chat_returned", "done"}
    /\ <<"completion", TRUE>> \in calls
    /\ user_id # ""
    /\ session_id # ""
    /\ has_memory
    /\ memory_client

\* C29: a turn that completes, with a user id and a session, appends one
\* turn to the session history and issues one event write, the history save
\* first; the event write is issued also when the history save failed.
C29_OneSaveThenOneEvent ==
    TurnPersisted =>
        /\ Cardinality(LogPositions("history_set")) = 1
        /\ Cardinality(LogPositions("create_event")) = 1
        /\ \A i \in LogPositions("history_set"),
              j \in LogPositions("create_event") : i < j
        /\ Len(events) <= 1
        /\ <<"history_set", TRUE>> \in calls =>
              /\ Len(appended) = 1
              /\ stored_history[Len(stored_history)] = appended[1]
              /\ \A i \in 1..(Len(stored_history) - 1) :
                    stored_history[i] # appended[1]
              /\ <<"history_get", FALSE>> \notin calls =>
                    stored_history =
                        LastN(Append(conversation_history, appended[1]),
                              MaxStoredHistory)
        /\ <<"history_set", FALSE>> \in calls => appended = <<>>

C29_Witness ==
    /\ TurnPersisted
    /\ <<"history_set", FALSE>> \in calls
    /\ <<"create_event", TRUE>> \in calls
    /\ Len(events) = 1
    /\ conversation_history # <<>>

\* C30: what a turn persists, in the session history and in the event log,
\* is the message chat was given and the whole text of the completion, never
\* the assembled context message.
C30_PersistsOriginalMessage ==
    /\ \A i \in DOMAIN appended :
          /\ appended[i].user_message = message
          /\ appended[i].user_message # contextualized_message
          /\ appended[i].agent_response = CompletionText(response.output)
          /\ stored_history[Len(stored_history)] = appended[i]
    /\ \A i \in DOMAIN events :
          /\ events[i].messages = <<message, CompletionText(response.output)>>
          /\ events[i].messages[1] # contextualized_message
    /\ pc \notin {"idle", "done"} => message = Strip(payload.prompt)

C30_Witness ==
    /\ appended # <<>>
    /\ events # <<>>
    /\ conversation_history # <<>>
    /\ user_context # ""
    /\ Len(CompletionText(response.output)) > ResponsePreviewLen
    /\ Len(contextualized_message) > Len(message)

(***************************************************************************)
(* SpecMemory: the memory manager called on its own (create_event and      *)
(* retrieve_memories, lines 250-344) and the event audit of                *)
(* src/check_events.py, over a store that keeps the accepted events and    *)
(* files a record of each under the namespaces of MEMORY_CONFIG.           *)
(***************************************************************************)
MaxMemCalls == 3

\* MEMORY_CONFIG["namespaces"], lines 118-122, with the strategy ids of the
\* environment written as the namespace type
NamespaceTemplate(namespace_type, actor_id, sid) ==
    IF namespace_type = "conversation_summaries"
    THEN "/strategies/conversation_summaries/actors/" \o actor_id
             \o "/sessions/" \o sid
    ELSE "/strategies/" \o namespace_type \o "/actors/" \o actor_id

\* a variant that fills a missing session id with the empty string
FormatNamespaceLenient(namespace_type, actor_id, sid) ==
    [kind |-> "returned",
     namespace |-> NamespaceTemplate(namespace_type, actor_id, sid)]

\* retrieve_memories, lines 314-318: str.format raises KeyError when the
\* template of the summaries is formatted without a session id
FormatNamespace(namespace_type, actor_id, sid) ==
    IF namespace_type = "conversation_summaries" /\ sid = ""
    THEN [kind |-> "raised", exc |-> "'session_id'"]
    ELSE [kind |-> "returned",
          namespace |-> NamespaceTemplate(namespace_type, actor_id, sid)]

\* retrieve_memories, lines 342-344
RetrieveMemoriesExcept(e) == [memories |-> <<>>, total |-> 0, error |-> e]

\* whether retrieve_memories reaches memory_client.retrieve_memories, line 321
StoreQueried(client, uid, sid, namespace_type) ==
    /\ client
    /\ namespace_type \in NamespaceTypes
    /\ FormatNamespace(namespace_type, FormatActorId(uid), sid).kind = "returned"

\* AgentCoreMemoryManager.retrieve_memories, lines 289-344: its result, the
\* store answering outcome for the namespace
RetrieveMemoriesResult(client, uid, sid, namespace_type, outcome) ==
    IF ~client THEN [memories |-> <<>>, total |-> 0]
    ELSE IF namespace_type \notin NamespaceTypes
         THEN [memories |-> <<>>, total |-> 0]
    ELSE LET formatted == FormatNamespace(namespace_type, FormatActorId(uid), sid)
         IN  IF formatted.kind = "raised"
             THEN RetrieveMemoriesExcept(formatted.exc)
             ELSE IF outcome.kind = "raised"
                  THEN RetrieveMemoriesExcept(outcome.exc)
                  ELSE [memories |-> outcome.memories,
                        total |-> Len(outcome.memories),
                        namespace |-> formatted.namespace,
                        actor_id |-> FormatActorId(uid)]

\* a variant that lets the exception of the store call through
CreateEventReraise(e) == [kind |-> "raised", exc |-> e]

\* create_event, lines 285-287
CreateEventExcept(e) == [kind |-> "returned", value |-> FALSE]

\* AgentCoreMemoryManager.create_event, lines 250-287: how the call ends,
\* the store answering outcome
CreateEventOutcome(client, outcome) ==
    IF ~client THEN [kind |-> "returned", value |-> FALSE]
    ELSE IF outcome.kind = "raised" THEN CreateEventExcept(outcome.exc)
    ELSE [kind |-> "returned", value |-> TRUE]

\* the records the store files for the events it accepted: one per event,
\* under the namespaces that MEMORY_CONFIG names for the event's actor
MemoryRecords(evts) ==
    [i \in DOMAIN evts |->
        [memoryRecordId |-> i,
         actor_id |-> evts[i].actor_id,
         content |-> evts[i].messages[1],
         namespaces |->
            <<NamespaceTemplate("user_preferences", evts[i].actor_id, ""),
              NamespaceTemplate("conversation_summaries", evts[i].actor_id,
                                evts[i].session_id)>>]]

\* the records of the store filed under a namespace
RecordsUnder(evts, namespace) ==
    SelectSeq(MemoryRecords(evts),
              LAMBDA r : \E k \in DOMAIN r.namespaces : r.namespaces[k] = namespace)

RECURSIVE UniqueById(_, _)
\* check_events.py, lines 53-61: the first record of each memoryRecordId
UniqueById(all_events, seen_ids) ==
    IF all_events = <<>> THEN <<>>
    ELSE IF Head(all_events).memoryRecordId \in seen_ids
         THEN UniqueById(Tail(all_events), seen_ids)
         ELSE <<Head(all_events)>> \o
              UniqueById(Tail(all_events),
                         seen_ids \cup {Head(all_events).memoryRecordId})

\* check_events.py, lines 63-73: the records kept for the user
UserEvents(user, unique_events) ==
    SelectSeq(unique_events,
              LAMBDA event :
                  \E k \in DOMAIN event.namespaces :
                      Contains(event.namespaces[k], "/actors/customer_" \o user))

\* check_events.py, line 39
AuditQueries == <<"user", "test", "customer", "message">>

\* check_events.py, lines 37-75: the events reported for the user, the
\* queries of answered being the ones the store answered
CheckEvents(user, evts, answered) ==
    LET responses == [q \in DOMAIN AuditQueries |->
                         IF q \in answered THEN MemoryRecords(evts) ELSE <<>>]
        all_events == Concat(responses)
    IN  UserEvents(user, UniqueById(all_events, {}))

\* check_events.py, line 27 has "123" and "1" among its users
MemoryUsers == {"1", "123"}

InitMemory ==
    /\ pc = "mem_idle"
    /\ clock = 0
    /\ session_id = ""
    /\ message = ""
    /\ user_id = ""
    /\ memories = NoMemories
    /\ user_context = ""
    /\ conversation_history = <<>>
    /\ contextualized_message = ""
    /\ has_memory = FALSE
    /\ stored_history = <<>>
    /\ appended = <<>>
    /\ store_faults = NoFaults
    /\ payload = [prompt |-> "", user_id |-> ""]
    /\ context_session_id = ""
    /\ entry_session_id = ""
    /\ start_time = 0
    /\ memory_client \in BOOLEAN
    /\ events = <<>>
    /\ response = NoResult
    /\ exc = ""
    /\ chat_result = NoResult
    /\ envelope = NoResult
    /\ calls = {}
    /\ call_log = <<>>
    /\ NoKnowledge
    /\ NoMemoryCall
    /\ writers = <<>>
    /\ attempts = 0

\* the variables no call of the memory manager touches
memoryIdle == <<pc, session_id, message, user_id, memories, user_context,
                conversation_history, contextualized_message, has_memory,
                stored_history, appended, store_faults, payload,
                context_session_id, entry_session_id, start_time,
                memory_client, response, exc, chat_result, envelope, calls,
                kbVars, writers, attempts>>

\* memory_manager.create_event(actor_id, session_id, user_message,
\* agent_response)
CreateEventCall ==
    /\ clock < MaxMemCalls
    /\ \E uid \in MemoryUsers, user_message \in Messages :
         \E outcome \in {[kind |-> "returned"]}
                        \cup {[kind |-> "raised", exc |-> e] : e \in Exceptions} :
            LET event == [actor_id |-> FormatActorId(uid), session_id |-> "s1",
                          messages |-> <<user_message, ShortResponse>>]
            IN  /\ outcome.kind = "returned" \/ memory_client
                /\ mem_call' = [op |-> "create_event", user_id |-> uid,
                                session_id |-> "s1", outcome |-> outcome]
                /\ mem_result' = CreateEventOutcome(memory_client, outcome)
                /\ events' = IF memory_client /\ outcome.kind = "returned"
                             THEN Append(events, event)
                             ELSE events
                /\ call_log' =
                       IF memory_client
                       THEN Append(call_log,
                                   LogEntry("create_event", FormatActorId(uid),
                                            outcome.kind = "returned"))
                       ELSE call_log
    /\ clock' = clock + 1
    /\ UNCHANGED memoryIdle

\* memory_manager.retrieve_memories(actor_id, session_id, namespace_type)
RetrieveMemoriesCall ==
    /\ clock < MaxMemCalls
    /\ \E uid \in MemoryUsers, sid \in SessionIds,
          namespace_type \in NamespaceTypes \cup {"unknown"}, ok \in BOOLEAN :
         LET queried == StoreQueried(memory_client, uid, sid, namespace_type)
             outcome ==
                 IF ~ok THEN [kind |-> "raised", exc |-> "ConnectionError"]
                 ELSE [kind |-> "returned",
                       memories |->
                          IF queried
                          THEN RecordsUnder(events,
                                   FormatNamespace(namespace_type,
                                       FormatActorId(uid), sid).namespace)
                          ELSE <<>>]
         IN  /\ ok \/ queried
             /\ mem_call' = [op |-> "retrieve_memories", user_id |-> uid,
                             session_id |-> sid,
                             namespace_type |-> namespace_type,
                             outcome |-> outcome]
             /\ mem_result' =
                    [kind |-> "returned",
                     value |-> RetrieveMemoriesResult(memory_client, uid, sid,
                                                      namespace_type, outcome)]
             /\ call_log' =
                    IF queried
                    THEN Append(call_log,
                                LogEntry("retrieve_memories", FormatActorId(uid),
                                         ok))
                    ELSE call_log
    /\ clock' = clock + 1
    /\ UNCHANGED <<events, memoryIdle>>

\* check_events.py, lines 29-75: one round of its loop over the users
CheckEventsCall ==
    /\ clock < MaxMemCalls
    /\ \E user \in MemoryUsers, answered \in SUBSET (DOMAIN AuditQueries) :
         /\ mem_call' = [op |-> "check_events", user_id |-> user,
                         answered |-> answered]
         /\ mem_result' = [kind |-> "returned",
                           value |-> CheckEvents(user, events, answered)]
    /\ clock' = clock + 1
    /\ UNCHANGED <<events, call_log, memoryIdle>>

NextMemory ==
    \/ CreateEventCall
    \/ RetrieveMemoriesCall
    \/ CheckEventsCall

SpecMemory == InitMemory /\ [][NextMemory]_vars

\* C21: create_event never raises, and it returns true exactly when the
\* store accepted the event: false without a client and false when the
\* store call fails, the store then holding what it held.
C21_CreateEventReportsStore ==
    [][(mem_call'.op = "create_event" /\ clock' # clock) =>
          /\ mem_result'.kind = "returned"
          /\ mem_result'.value \in BOOLEAN
          /\ mem_result'.value <=> (Len(events') = Len(events) + 1)
          /\ ~mem_result'.value => events' = events
          /\ ~memory_client => ~mem_result'.value
          /\ mem_call'.outcome.kind = "raised" => ~mem_result'.value
          /\ mem_result'.value =>
                events'[Len(events')].actor_id =
                    FormatActorId(mem_call'.user_id)]_vars

C21_Witness ==
    /\ mem_call.op = "create_event"
    /\ memory_client
    /\ mem_call.outcome.kind = "raised"
    /\ mem_result = [kind |-> "returned", value |-> FALSE]
    /\ Len(events) = 1

\* the user id an actor id was made from
UserIdOf(actor_id) == SubSeq(actor_id, Len("customer_") + 1, Len(actor_id))

\* C23: the actor id of a user is stable and reversible: distinct users get
\* distinct actor ids, taking the prefix away gives the user id back, and
\* the audit of check_events selects for a user only records whose actor id
\* maps back to that user.
C23_ActorIdReversibleInAudit ==
    /\ \A u \in MemoryUsers, v \in MemoryUsers :
          FormatActorId(u) = FormatActorId(v) => u = v
    /\ \A u \in MemoryUsers : UserIdOf(FormatActorId(u)) = u
    /\ mem_call.op = "check_events" =>
          \A i \in DOMAIN mem_result.value :
              UserIdOf(mem_result.value[i].actor_id) = mem_call.user_id

\* the call names a namespace that retrieve_memories cannot resolve
Unresolvable(call) ==
    \/ call.namespace_type \notin NamespaceTypes
    \/ call.namespace_type = "conversation_summaries" /\ call.session_id = ""

\* C24: retrieve_memories called for the conversation summaries without a
\* session id, or for a namespace type it does not know, does not raise and
\* returns an empty list with total 0, the same on every such call, and the
\* store is not queried.
C24_UnresolvableNamespaceIsEmpty ==
    [][(mem_call'.op = "retrieve_memories" /\ clock' # clock
            /\ Unresolvable(mem_call')) =>
          /\ mem_result'.kind = "returned"
          /\ mem_result'.value.memories = <<>>
          /\ mem_result'.value.total = 0
          /\ call_log' = call_log
          /\ \A client \in BOOLEAN, uid \in MemoryUsers :
                LET again == RetrieveMemoriesResult(
                                 client, uid, mem_call'.session_id,
                                 mem_call'.namespace_type, mem_call'.outcome)
                IN  again.memories = <<>> /\ again.total = 0]_vars

C24_Witness ==
    /\ mem_call.op = "retrieve_memories"
    /\ mem_call.namespace_type = "conversation_summaries"
    /\ mem_call.session_id = ""
    /\ memory_client
    /\ events # <<>>
    /\ mem_result.value = RetrieveMemoriesExcept("'session_id'")

(***************************************************************************)
(* SpecConcurrent: the turns of one session saved side by side.  Each turn *)
(* runs _save_interaction, lines 706-737: it reads the stored history,     *)
(* appends its turn to its own copy and cuts it to the last ten, then      *)
(* writes the copy back; the reads and writes of the store are the steps   *)
(* that interleave.  appended starts as the stored history, the turns of   *)
(* the session so far, and grows by each turn whose write is stored.       *)
(***************************************************************************)
MaxWriters == 2

\* the histories a session can have stored: its turns were made at
\* different times (line 718), so no two of them are the same
SessionHistories ==
    {h \in PriorHistories :
        \A i \in DOMAIN h, j \in DOMAIN h : h[i] = h[j] => i = j}

InitConcurrent ==
    /\ pc = "concurrent"
    /\ clock = 11
    /\ session_id = "s1"
    /\ message = ""
    /\ user_id = "123"
    /\ memories = NoMemories
    /\ user_context = ""
    /\ conversation_history = <<>>
    /\ contextualized_message = ""
    /\ has_memory = TRUE
    /\ stored_history \in SessionHistories
    /\ appended = stored_history
    /\ store_faults = NoFaults
    /\ payload = [prompt |-> "", user_id |-> ""]
    /\ context_session_id = "s1"
    /\ entry_session_id = ""
    /\ start_time = 0
    /\ memory_client = FALSE
    /\ events = <<>>
    /\ response = NoResult
    /\ exc = ""
    /\ chat_result = NoResult
    /\ envelope = NoResult
    /\ calls = {}
    /\ call_log = <<>>
    /\ NoKnowledge
    /\ NoMemoryCall
    /\ writers = [w \in 1..MaxWriters |-> [pc |-> "start", history |-> <<>>]]
    /\ attempts = 0

\* the variables no save of the session touches
concurrentIdle == <<pc, session_id, message, user_id, memories, user_context,
                    conversation_history, contextualized_message, has_memory,
                    store_faults, entryVars, calls, call_log, kbVars, memVars,
                    attempts>>

\* _save_interaction, lines 714-728, of turn w: the read of the stored
\* history, the new turn appended to what was read, the cut to the last ten
WriterRead(w) ==
    /\ writers[w].pc = "start"
    /\ \E user_message \in Messages, read_ok \in BOOLEAN :
         writers' = [writers EXCEPT ![w] =
             [pc |-> "read",
              history |->
                  AppendAndLimit(
                      GetConversationHistory(has_memory, stored_history, read_ok),
                      NewInteraction(clock, user_id, user_message, ShortResponse,
                                     session_id))]]
    /\ clock' = clock + 1
    /\ UNCHANGED <<stored_history, appended, concurrentIdle>>

\* _save_interaction, lines 731-737, of turn w: the write of its copy
WriterWrite(w) ==
    /\ writers[w].pc = "read"
    /\ \E write_ok \in BOOLEAN :
         /\ stored_history' = IF write_ok THEN writers[w].history
                              ELSE stored_history
         /\ appended' =
                IF write_ok
                THEN Append(appended,
                            writers[w].history[Len(writers[w].history)])
                ELSE appended
    /\ writers' = [writers EXCEPT ![w].pc = "done"]
    /\ UNCHANGED <<clock, concurrentIdle>>

NextConcurrent == \E w \in DOMAIN writers : WriterRead(w) \/ WriterWrite(w)

SpecConcurrent == InitConcurrent /\ [][NextConcurrent]_vars

RECURSIVE IsSubsequence(_, _)
\* s is t with some of its elements left out
IsSubsequence(s, t) ==
    IF s = <<>> THEN TRUE
    ELSE IF t = <<>> THEN FALSE
    ELSE IF Head(s) = Head(t) THEN IsSubsequence(Tail(s), Tail(t))
    ELSE IsSubsequence(s, Tail(t))

\* the fields of a stored turn
TurnFields == {"timestamp", "user_id", "user_message", "agent_response",
               "session_id"}

\* C25: when two turns of a session interleave their read, append, cut and
\* write of the session history, the stored history stays well formed: a
\* list of at most ten turns that ends with the turn of the last writer and
\* otherwise holds only turns appended earlier, in the order they were
\* appended and none twice.
C25_InterleavedSavesWellFormed ==
    /\ Len(stored_history) <= MaxStoredHistory
    /\ \A i \in DOMAIN stored_history :
          /\ DOMAIN stored_history[i] = TurnFields
          /\ stored_history[i].session_id = session_id
    /\ IsSubsequence(stored_history, appended)
    /\ \A i \in DOMAIN stored_history, j \in DOMAIN stored_history :
          stored_history[i] = stored_history[j] => i = j
    /\ appended # <<>> =>
          /\ stored_history # <<>>
          /\ stored_history[Len(stored_history)] = appended[Len(appended)]

\* both turns read before either wrote, and the turn written first is no
\* longer in the store
C25_Witness ==
    /\ \A w \in DOMAIN writers : writers[w].pc = "done"
    /\ Len(appended) >= 3
    /\ Len(stored_history) < MaxStoredHistory
    /\ \A i \in DOMAIN stored_history :
          stored_history[i] # appended[Len(appended) - 1]

(***************************************************************************)
(* SpecLive: one request through the entrypoint, as Spec, with the         *)
(* knowledge retrieval that the orchestrator agent may ask for during the  *)
(* completion, lines 128-220.  The knowledge client is built with          *)
(* connect_timeout, read_timeout and retries of AWS_CONFIG (lines 93-99,   *)
(* 133-137): each attempt returns or raises, and botocore makes            *)
(* max_attempts further attempts after the first one.  The model client    *)
(* (lines 414-423) and the memory client (line 237) are built without a    *)
(* timeout of their own; their calls are taken to return or raise, as      *)
(* Spec takes them.                                                        *)
(***************************************************************************)
MaxAttempts == 3

MaxAttemptsSeen == 5

\* a variant that retries whatever the count
RetryAlways(retries_made) == TRUE

\* Config(retries = {'max_attempts': 3}), line 136: a failed attempt is
\* retried while fewer than max_attempts retries were made
RetryAllowed(retries_made) == retries_made < MaxAttempts

InitLive ==
    /\ Init
    /\ memories = NoMemories
    /\ stored_history = <<>>
    /\ context_session_id = "s1"

\* the variables a knowledge retrieval leaves alone
liveIdle == <<clock, sessionIdle, entryVars, calls, call_log, index, kb_call,
              search_result, memVars, writers>>

\* search_knowledge_base, line 465: the orchestrator agent asks for a
\* knowledge retrieval while the completion runs, once in a turn
KnowledgeRetrievalStart ==
    /\ pc = "complete"
    /\ attempts = 0
    /\ attempts' = 1
    /\ pc' = "retrieving"
    /\ UNCHANGED <<results, liveIdle>>

\* BedrockKnowledgeBaseClient.retrieve, lines 166-220: one attempt of the
\* index call, which answers, or fails and is made again, or fails for good
KnowledgeRetrievalAttempt ==
    /\ pc = "retrieving"
    /\ \/ /\ results' = Retrieve(message, SearchMaxResults, SearchMinScore,
                                 [kind |-> "returned", retrievalResults |-> <<>>])
          /\ pc' = "complete"
          /\ UNCHANGED attempts
       \/ \E e \in Exceptions :
            IF RetryAllowed(attempts - 1) /\ attempts < MaxAttemptsSeen
            THEN /\ attempts' = attempts + 1
                 /\ UNCHANGED <<pc, results>>
            ELSE /\ results' = Retrieve(message, SearchMaxResults,
                                        SearchMinScore,
                                        [kind |-> "raised", exc |-> e])
                 /\ pc' = "complete"
                 /\ UNCHANGED attempts
    /\ UNCHANGED liveIdle

NextLive ==
    \/ Next
    \/ KnowledgeRetrievalStart
    \/ KnowledgeRetrievalAttempt

\* the steps of a request that has been accepted, up to chat's return
TurnStep ==
    \/ CreateOrchestrator
    \/ ChatGetUserContext
    \/ ChatGetHistory
    \/ ChatBuildContext
    \/ ChatComplete
    \/ ChatSaveInteraction
    \/ ChatCreateEvent
    \/ ChatExceptClause
    \/ EntryExcept
    \/ KnowledgeRetrievalAttempt

\* the step EntryReturn takes, by where it starts and ends
EnvelopeStep == pc = "chat_returned" /\ pc' = "done"

\* a request need not arrive, and the agent need not ask for knowledge; a
\* step of a request in hand is taken, since the call it makes returns or
\* raises
SpecLive ==
    InitLive /\ [][NextLive]_vars /\ WF_vars(TurnStep) /\ WF_pc(EnvelopeStep)

\* the request was accepted and its envelope returned
EnvelopeReturned == pc = "done" /\ envelope # NoResult

====
